---- MODULE Spec2Model ----
(***************************************************************************)
(* Video-trailer portal (server.js and its second variant, the unnamed     *)
(* part_000): an Express application whose handlers suspend at every       *)
(* record-store (supabase table "videos"), blob-store (supabase storage)   *)
(* and filesystem call.  Strings are sequences of one-character strings.   *)
(***************************************************************************)
EXTENDS Integers, Sequences, FiniteSets, TLC

\* ---- bounds of the model
MaxReqs == 2
MaxTotal == 3
MaxNow == 1

Reqs == 1..MaxReqs

\* ---- input alphabets
Variants == {"server", "part000"}
AdminKeys == { <<>>, <<"s">> }
\* <<req.query.key, req.body.key, x-admin-key header>>, <<>> when absent
KeyInputs ==
  { << <<>>, <<>>, <<>> >>,
    << <<"s">>, <<>>, <<>> >>, << <<>>, <<"s">>, <<>> >>, << <<>>, <<>>, <<"s">> >>,
    << <<" ", "s", " ">>, <<>>, <<>> >>, << <<>>, <<>>, <<" ", "s", " ">> >>,
    << <<"x">>, <<"s">>, <<"s">> >>, << <<>>, <<"x">>, <<"s">> >> }
GoodKey == { << <<"s">>, <<>>, <<>> >> }
Titles == { <<>>, <<" ">>, <<"!">>, <<"A", "!">> }
Mimes == { "none", "video/mp4", "image/png" }
SlugParams == { <<"a">>, <<"v", "i", "d", "e", "o">> }
Outcomes == { "ok", "error", "throw" }
GuardOutcomes == { "ok", "error" }

AllowedMimes == { "video/mp4", "video/webm", "video/ogg" }
Fallback == <<"v", "i", "d", "e", "o">>
NoPath == << >>

VARIABLES variant, ADMIN_KEY, videos, blobs, nextId, now, req, served

vars == <<variant, ADMIN_KEY, videos, blobs, nextId, now, req, served>>

\* ---- pure helpers ------------------------------------------------------
IsSpace(c) == c = " "
IsAlnum(c) == c \in {"a", "A", "2", "s", "x", "v", "i", "d", "e", "o"}

RECURSIVE TrimLeft(_)
TrimLeft(s) == IF s # <<>> /\ IsSpace(Head(s)) THEN TrimLeft(Tail(s)) ELSE s

RECURSIVE TrimRight(_)
TrimRight(s) ==
  IF s # <<>> /\ IsSpace(s[Len(s)]) THEN TrimRight(SubSeq(s, 1, Len(s) - 1)) ELSE s

\* String.prototype.trim
Trim(s) == TrimRight(TrimLeft(s))

LowerChar(c) == IF c = "A" THEN "a" ELSE c

\* slugify(title, {lower: true, strict: true}): drop what is neither
\* alphanumeric nor whitespace, trim, whitespace runs -> "-", lower-case
RECURSIVE StripStrict(_)
StripStrict(s) ==
  IF s = <<>> THEN <<>>
  ELSE IF IsAlnum(Head(s)) \/ IsSpace(Head(s)) THEN <<Head(s)>> \o StripStrict(Tail(s))
  ELSE StripStrict(Tail(s))

RECURSIVE CollapseSpaces(_)
CollapseSpaces(s) ==
  IF s = <<>> THEN <<>>
  ELSE IF IsSpace(Head(s)) THEN <<"-">> \o CollapseSpaces(TrimLeft(s))
  ELSE <<LowerChar(Head(s))>> \o CollapseSpaces(Tail(s))

slugify(t) == CollapseSpaces(Trim(StripStrict(t)))

Digits == <<"0", "1", "2", "3", "4", "5", "6", "7", "8", "9">>

RECURSIVE ToStr(_)
ToStr(n) == IF n < 10 THEN <<Digits[n + 1]>> ELSE ToStr(n \div 10) \o <<Digits[(n % 10) + 1]>>

\* `${base}-${i}`
Candidate(base, i) == base \o <<"-">> \o ToStr(i)

\* server.js: slugify(...) || "video";  part_000: slugify(...) alone
BaseSlug(v, title) ==
  IF v = "server" /\ slugify(title) = <<>> THEN Fallback ELSE slugify(title)

\* mime.extension(req.file.mimetype) || "mp4"
Ext(m) == IF m = "video/webm" THEN "webm" ELSE IF m = "video/ogg" THEN "ogv" ELSE "mp4"

\* `trailers/${Date.now()}_${slug}.${ext}`
FilePath(t, slug, m) == <<t, slug, Ext(m)>>

\* req.query.key || req.body.key || req.get("x-admin-key") || ""
SuppliedKey(q, b, h) == IF q # <<>> THEN q ELSE IF b # <<>> THEN b ELSE h

checkAdminAnyConfig(cfg, key) == Trim(key) = cfg

\* checkAdmin lets the request through: ADMIN_KEY && key === ADMIN_KEY, key trimmed
checkAdmin(cfg, key) == cfg # <<>> /\ Trim(key) = cfg

\* multer fileFilter
fileFilter(m) == m \in AllowedMimes

Slugs(rows) == { row.slug : row \in rows }
Matching(rows, slug) == { row \in rows : row.slug = slug }

\* ---- request bookkeeping ----------------------------------------------
Blank ==
  [ kind |-> "none", pc |-> "idle", key |-> <<>>, title |-> <<>>, mime |-> "none",
    slug |-> <<>>, base |-> <<>>, i |-> 2, filePath |-> NoPath,
    ops |-> 0, resp |-> 0, failedAt |-> -1,
    allocStore |-> {}, stable |-> TRUE, allocDone |-> FALSE,
    rowOk |-> FALSE, rm |-> "none", q1 |-> "none", q2 |-> "none", shown |-> {} ]

\* a request arrives on a free connection: one that has served nothing yet
\* or whose previous request has been answered
CanStart(r) ==
  /\ served < MaxTotal
  /\ req[r].pc \in {"idle", "done"}
  /\ \A p \in Reqs : p < r => req[p].pc # "idle"

Failed(o) == o # "ok"

\* remember the first failed remote call of a request
MarkFail(rec, o) ==
  IF Failed(o) /\ rec.failedAt = -1 THEN [rec EXCEPT !.failedAt = rec.ops] ELSE rec

Finish(rec, status) == [rec EXCEPT !.pc = "done", !.resp = status]

\* a row insert or delete by another request ends the stability of the
\* allocations that are still probing
Unstable(r) ==
  [p \in Reqs |->
     IF p # r /\ req[p].pc = "probe" THEN [req[p] EXCEPT !.stable = FALSE] ELSE req[p]]

Init ==
  /\ variant \in Variants
  /\ ADMIN_KEY \in AdminKeys
  /\ videos = {}
  /\ blobs = {}
  /\ nextId = 1
  /\ now = 0
  /\ req = [r \in Reqs |-> Blank]
  /\ served = 0

\* Date.now() advances
Tick ==
  /\ now < MaxNow
  /\ now' = now + 1
  /\ UNCHANGED <<variant, ADMIN_KEY, videos, blobs, nextId, req, served>>


\* ---- POST /admin/upload ------------------------------------------------
\* checkAdmin, then multer (upload.single), then the handler up to its first
\* await.  The multipart body is not parsed before the guard runs, so the
\* key comes from the query or the header.  An error of the file filter
\* goes to next(err): the handler and its try/catch never run and Express's
\* final handler answers 500.
StartUpload(r, q, h, title, mime) ==
  /\ CanStart(r)
  /\ LET key == SuppliedKey(q, <<>>, h)
         rec == [Blank EXCEPT !.kind = "upload", !.key = key, !.title = title, !.mime = mime]
     IN  req' = [req EXCEPT ![r] =
           IF ~checkAdmin(ADMIN_KEY, key) THEN Finish(rec, 403)
           ELSE IF mime # "none" /\ ~fileFilter(mime) THEN Finish(rec, 500)
           ELSE IF title = <<>> \/ mime = "none" THEN Finish(rec, 400)
           ELSE [rec EXCEPT !.pc = "probe", !.base = BaseSlug(variant, title),
                            !.slug = BaseSlug(variant, title), !.i = 2, !.ops = 1,
                            !.allocStore = Slugs(videos), !.stable = TRUE]]
  /\ served' = served + 1
  /\ UNCHANGED <<variant, ADMIN_KEY, videos, blobs, nextId, now>>

\* getVideoBySlug(slug) returns inside the allocation loop: a query error is
\* logged and answered null, a thrown error reaches the handler's catch
ProbeDone(r, o) ==
  /\ req[r].pc = "probe"
  /\ LET rec == MarkFail(req[r], o)
         exists == o = "ok" /\ Matching(videos, rec.slug) # {}
     IN  req' = [req EXCEPT ![r] =
           IF o = "throw" THEN Finish(rec, 400)
           ELSE IF exists
             THEN [rec EXCEPT !.slug = Candidate(rec.base, rec.i), !.i = rec.i + 1,
                              !.ops = rec.ops + 1]
             ELSE [rec EXCEPT !.pc = "read", !.allocDone = TRUE,
                              !.filePath = FilePath(now, rec.slug, rec.mime)]]
  /\ UNCHANGED <<variant, ADMIN_KEY, videos, blobs, nextId, now, served>>

\* fs.readFile(req.file.path) returns; then storage.upload is issued
ReadDone(r, o) ==
  /\ req[r].pc = "read"
  /\ o \in {"ok", "throw"}
  /\ req' = [req EXCEPT ![r] =
       IF o = "throw" THEN Finish(req[r], 400)
       ELSE [req[r] EXCEPT !.pc = "put", !.ops = req[r].ops + 1]]
  /\ UNCHANGED <<variant, ADMIN_KEY, videos, blobs, nextId, now, served>>

\* storage.upload(filePath, ..., {upsert: true}) returns; then insertVideo
PutDone(r, o) ==
  /\ req[r].pc = "put"
  /\ LET rec == MarkFail(req[r], o)
     IN  /\ req' = [req EXCEPT ![r] =
              IF Failed(o) THEN Finish(rec, 400)
              ELSE [rec EXCEPT !.pc = "insert", !.ops = rec.ops + 1]]
         /\ blobs' = IF o = "ok" THEN blobs \cup {rec.filePath} ELSE blobs
  /\ UNCHANGED <<variant, ADMIN_KEY, videos, nextId, now, served>>

\* the row the handler inserts
NewRow(id, rec) ==
  [id |-> id, slug |-> rec.slug, title |-> Trim(rec.title), file_path |-> rec.filePath]

\* insertVideo returns; then redirect to /admin
InsertDone(r, o) ==
  /\ req[r].pc = "insert"
  /\ LET rec == MarkFail(req[r], o)
     IN  IF o = "ok"
           THEN /\ videos' = videos \cup {NewRow(nextId, rec)}
                /\ nextId' = nextId + 1
                /\ req' = [Unstable(r) EXCEPT ![r] = Finish(rec, 302)]
           ELSE /\ req' = [req EXCEPT ![r] = Finish(rec, 400)]
                /\ UNCHANGED <<videos, nextId>>
  /\ UNCHANGED <<variant, ADMIN_KEY, blobs, now, served>>

\* ---- POST /admin/delete/:slug ------------------------------------------
StartDelete(r, q, b, h, slug) ==
  /\ CanStart(r)
  /\ LET key == SuppliedKey(q, b, h)
         rec == [Blank EXCEPT !.kind = "delete", !.key = key, !.slug = slug]
     IN  req' = [req EXCEPT ![r] =
           IF ~checkAdmin(ADMIN_KEY, key) THEN Finish(rec, 403)
           ELSE [rec EXCEPT !.pc = "delrow", !.ops = 1]]
  /\ served' = served + 1
  /\ UNCHANGED <<variant, ADMIN_KEY, videos, blobs, nextId, now>>

RemoveRespNoCatch(o) == IF o = "throw" THEN 400 ELSE 302

\* storage.remove([...]).catch(() => {}) and the redirect that follows
RemoveResp(o) == 302

\* deleteVideoBySlug returns.  delete().eq().select().maybeSingle() answers
\* an error, with no row removed, when more than one row matches.
DelRowDone(r, o) ==
  /\ req[r].pc = "delrow"
  /\ LET hit == Matching(videos, req[r].slug)
         out == IF o = "ok" /\ Cardinality(hit) > 1 THEN "error" ELSE o
         rec == MarkFail(req[r], out)
     IN  IF out = "ok"
           THEN /\ videos' = videos \ hit
                /\ req' = [(IF hit # {} THEN Unstable(r) ELSE req) EXCEPT ![r] =
                     IF hit # {}
                       THEN [rec EXCEPT !.pc = "rmblob", !.rowOk = TRUE, !.ops = rec.ops + 1,
                                        !.filePath = (CHOOSE row \in hit : TRUE).file_path]
                       ELSE [Finish(rec, 302) EXCEPT !.rowOk = TRUE]]
           ELSE /\ req' = [req EXCEPT ![r] = Finish(rec, 400)]
                /\ UNCHANGED videos
  /\ UNCHANGED <<variant, ADMIN_KEY, blobs, nextId, now, served>>

\* storage.remove returns (or fails); either way the redirect follows
RmBlobDone(r, o) ==
  /\ req[r].pc = "rmblob"
  /\ blobs' = IF o = "ok" THEN blobs \ {req[r].filePath} ELSE blobs
  /\ req' = [req EXCEPT ![r] = [Finish(req[r], RemoveResp(o)) EXCEPT !.rm = o]]
  /\ UNCHANGED <<variant, ADMIN_KEY, videos, nextId, now, served>>

\* ---- readVideos: GET / and GET /admin ----------------------------------
Ids(rows) == { row.id : row \in rows }

\* GET /admin: checkAdmin, then readVideos issues the primary query
StartAdmin(r, q, b, h) ==
  /\ CanStart(r)
  /\ LET key == SuppliedKey(q, b, h)
         rec == [Blank EXCEPT !.kind = "admin", !.key = key]
     IN  req' = [req EXCEPT ![r] =
           IF ~checkAdmin(ADMIN_KEY, key) THEN Finish(rec, 403)
           ELSE [rec EXCEPT !.pc = "q1", !.ops = 1]]
  /\ served' = served + 1
  /\ UNCHANGED <<variant, ADMIN_KEY, videos, blobs, nextId, now>>

\* GET /: public, readVideos issues the primary query
StartHome(r) ==
  /\ CanStart(r)
  /\ req' = [req EXCEPT ![r] = [Blank EXCEPT !.kind = "home", !.pc = "q1", !.ops = 1]]
  /\ served' = served + 1
  /\ UNCHANGED <<variant, ADMIN_KEY, videos, blobs, nextId, now>>

\* does readVideos go on to the query ordered by id after the primary
\* query ended with outcome o?
\*   server.js: try { const { data } = await ...; return data || [] } catch
\*              -> only a thrown error reaches the fallback
\*   part_000:  if (!error && data) return data; -> a returned error does;
\*              a thrown error leaves readVideos
TriesById(v, o) == IF v = "server" THEN o = "throw" ELSE o = "error"

\* the primary query (ordered by the creation time) returns
Q1Done(r, o) ==
  /\ req[r].pc = "q1"
  /\ LET rec == [req[r] EXCEPT !.q1 = o]
     IN  req' = [req EXCEPT ![r] =
           IF TriesById(variant, o) THEN [rec EXCEPT !.pc = "q2", !.ops = rec.ops + 1]
           ELSE IF o = "ok" THEN [Finish(rec, 200) EXCEPT !.shown = Ids(videos)]
           ELSE IF o = "error" THEN Finish(rec, 200)
           ELSE Finish(rec, -1)]
  /\ UNCHANGED <<variant, ADMIN_KEY, videos, blobs, nextId, now, served>>

\* the query ordered by id returns: server.js ignores a returned error
\* (data || []), part_000 logs it and returns []; a thrown error leaves
\* readVideos and the handler (resp -1: the handler's promise is rejected)
Q2Done(r, o) ==
  /\ req[r].pc = "q2"
  /\ LET rec == [MarkFail(req[r], o) EXCEPT !.q2 = o]
     IN  req' = [req EXCEPT ![r] =
           IF o = "ok" THEN [Finish(rec, 200) EXCEPT !.shown = Ids(videos)]
           ELSE IF o = "error" THEN Finish(rec, 200)
           ELSE Finish(rec, -1)]
  /\ UNCHANGED <<variant, ADMIN_KEY, videos, blobs, nextId, now, served>>

\* ---- GET /watch/:slug --------------------------------------------------
StartWatch(r, slug) ==
  /\ CanStart(r)
  /\ req' = [req EXCEPT ![r] =
       [Blank EXCEPT !.kind = "watch", !.slug = slug, !.pc = "get", !.ops = 1]]
  /\ served' = served + 1
  /\ UNCHANGED <<variant, ADMIN_KEY, videos, blobs, nextId, now>>

GetDone(r, o) ==
  /\ req[r].pc = "get"
  /\ LET rec == MarkFail(req[r], o)
     IN  req' = [req EXCEPT ![r] =
           IF o = "throw" THEN Finish(rec, -1)
           ELSE IF o = "ok" /\ Matching(videos, rec.slug) # {} THEN Finish(rec, 200)
           ELSE Finish(rec, 404)]
  /\ UNCHANGED <<variant, ADMIN_KEY, videos, blobs, nextId, now, served>>

\* ---- the system --------------------------------------------------------
\* the steps of the routes, with the inputs the requests are drawn from:
\* KI the <<query, body, header>> keys, TS the titles, MS the file types,
\* SS the :slug parameters, OS the outcomes of the remote calls
UploadSteps(KI, TS, MS, OS) ==
  \/ \E r \in Reqs, k \in KI, t \in TS, m \in MS : StartUpload(r, k[1], k[3], t, m)
  \/ \E r \in Reqs, o \in OS : ProbeDone(r, o)
  \/ \E r \in Reqs, o \in OS : ReadDone(r, o)
  \/ \E r \in Reqs, o \in OS : PutDone(r, o)
  \/ \E r \in Reqs, o \in OS : InsertDone(r, o)

DeleteSteps(KI, SS, OS) ==
  \/ \E r \in Reqs, k \in KI, s \in SS : StartDelete(r, k[1], k[2], k[3], s)
  \/ \E r \in Reqs, o \in OS : DelRowDone(r, o)
  \/ \E r \in Reqs, o \in OS : RmBlobDone(r, o)

ListSteps(KI, OS) ==
  \/ \E r \in Reqs, k \in KI : StartAdmin(r, k[1], k[2], k[3])
  \/ \E r \in Reqs : StartHome(r)
  \/ \E r \in Reqs, o \in OS : Q1Done(r, o)
  \/ \E r \in Reqs, o \in OS : Q2Done(r, o)

WatchSteps(SS, OS) ==
  \/ \E r \in Reqs, s \in SS : StartWatch(r, s)
  \/ \E r \in Reqs, o \in OS : GetDone(r, o)

\* uploads and deletes by the administrator, interleaved
Next ==
  \/ Tick
  \/ UploadSteps(GoodKey, Titles, Mimes, Outcomes)
  \/ DeleteSteps(GoodKey, SlugParams, Outcomes)

Spec == Init /\ [][Next]_vars

\* the pages that read the store, beside uploads that fill it
NextPages ==
  \/ UploadSteps(GoodKey, {<<"a">>}, {"video/mp4"}, Outcomes)
  \/ ListSteps(GoodKey, Outcomes)
  \/ WatchSteps({<<"a">>}, Outcomes)

SpecPages == Init /\ [][NextPages]_vars

\* deletes of the rows that uploads of one title insert
NextDelete ==
  \/ UploadSteps(GoodKey, {<<"a">>}, {"video/mp4"}, Outcomes)
  \/ DeleteSteps(GoodKey, SlugParams, Outcomes)

SpecDelete == Init /\ [][NextDelete]_vars

\* no request is in flight
Quiet == \A p \in Reqs : req[p].pc \in {"idle", "done"}

\* the admin routes under every way of supplying a key, the requests
\* arriving one after the other
NextGuard ==
  \/ Quiet /\ \E r \in Reqs, k \in KeyInputs : StartUpload(r, k[1], k[3], <<"a">>, "video/mp4")
  \/ Quiet /\ \E r \in Reqs, k \in KeyInputs : StartDelete(r, k[1], k[2], k[3], <<"a">>)
  \/ Quiet /\ \E r \in Reqs, k \in KeyInputs : StartAdmin(r, k[1], k[2], k[3])
  \/ \E r \in Reqs, o \in GuardOutcomes : ProbeDone(r, o)
  \/ \E r \in Reqs, o \in GuardOutcomes : ReadDone(r, o)
  \/ \E r \in Reqs, o \in GuardOutcomes : PutDone(r, o)
  \/ \E r \in Reqs, o \in GuardOutcomes : InsertDone(r, o)
  \/ \E r \in Reqs, o \in GuardOutcomes : DelRowDone(r, o)
  \/ \E r \in Reqs, o \in GuardOutcomes : RmBlobDone(r, o)
  \/ \E r \in Reqs, o \in GuardOutcomes : Q1Done(r, o)
  \/ \E r \in Reqs, o \in GuardOutcomes : Q2Done(r, o)

SpecGuard == Init /\ [][NextGuard]_vars

\* ---- properties ---------------------------------------------------------
Uploads == { r \in Reqs : req[r].kind = "upload" }
Deletes == { r \in Reqs : req[r].kind = "delete" }
Lists == { r \in Reqs : req[r].kind \in {"home", "admin"} }
AdminReqs == { r \in Reqs : req[r].kind \in {"upload", "delete", "admin"} }

\* the k-th candidate of the sequence base, base-2, base-3, ...
Cand(base, k) == IF k = 1 THEN base ELSE Candidate(base, k)

\* C1: no two records of the record store have the same slug
C1_UniqueSlugs == \A a \in videos, b \in videos : a.slug = b.slug => a = b

\* C2: an allocation during which the store did not change returns the first
\* candidate of base, base-2, base-3, ... that is not in the store
C2_FirstFree ==
  \A r \in Uploads :
    (req[r].allocDone /\ req[r].stable) =>
      /\ req[r].slug = Cand(req[r].base, req[r].i - 1)
      /\ req[r].slug \notin req[r].allocStore
      /\ \A k \in 1..(req[r].i - 2) : Cand(req[r].base, k) \in req[r].allocStore

\* C3: an admin request is answered 403, with no store call made, unless the
\* configured key is non-empty and equals the trimmed supplied key; with
\* such a key it is let through
C3_Guard ==
  \A r \in AdminReqs :
    LET match == ADMIN_KEY # <<>> /\ Trim(req[r].key) = ADMIN_KEY
    IN  /\ ~match => (req[r].pc = "done" /\ req[r].resp = 403 /\ req[r].ops = 0)
        /\ match => req[r].resp # 403

C3_Witness ==
  \E r \in AdminReqs, p \in AdminReqs :
    /\ ADMIN_KEY # <<>>
    /\ req[r].key = <<"x">> /\ req[r].kind = "upload" /\ req[r].resp = 403 /\ req[r].ops = 0
    /\ req[p].key = <<" ", "s", " ">> /\ req[p].kind = "delete" /\ req[p].ops > 0

\* C4: every record's file_path names a blob present in the blob store
C4_LiveBlob == \A row \in videos : row.file_path \in blobs

\* C5: an upload whose file type is outside the allow-list is answered 400
\* and makes no store call
C5_BadMime ==
  \A r \in Uploads :
    (req[r].pc = "done" /\ req[r].resp # 403 /\ req[r].mime \notin AllowedMimes \cup {"none"})
      => (req[r].resp = 400 /\ req[r].ops = 0)

\* C6: a title that normalizes to the empty token gets the slug "video",
\* "video-2", ...; no record has an empty slug
C6_Fallback ==
  /\ \A row \in videos : row.slug # <<>>
  /\ \A r \in Uploads :
       (req[r].allocDone /\ slugify(req[r].title) = <<>>) =>
         req[r].slug = Cand(Fallback, req[r].i - 1)

\* C7: a delete request whose row delete succeeded ends with the redirect,
\* whatever the blob removal did
C7_DeleteRedirects ==
  \A r \in Deletes :
    req[r].rowOk => /\ req[r].resp \in {0, 302}
                    /\ req[r].pc = "done" => req[r].resp = 302

C7_Witness ==
  \E r \in Deletes :
    req[r].rowOk /\ req[r].pc = "done" /\ req[r].rm = "throw" /\ req[r].resp = 302

\* C8: after a failed remote call (other than the blob removal of a delete
\* and the primary list query) the request makes no further store call and
\* is answered with an error
C8_AbortOnFail ==
  \A r \in Reqs :
    req[r].failedAt # -1 =>
      /\ req[r].ops = req[r].failedAt
      /\ req[r].pc = "done" => req[r].resp \in {400, 404, 500}

\* C9: every record's title is non-empty; an upload whose title is empty
\* after trimming is answered 400 and makes no store call
C9_TitleNonEmpty ==
  /\ \A row \in videos : row.title # <<>>
  /\ \A r \in Uploads :
       (req[r].pc # "idle" /\ req[r].resp # 403 /\ req[r].mime \in AllowedMimes
          /\ Trim(req[r].title) = <<>>)
         => (req[r].pc = "done" /\ req[r].resp = 400 /\ req[r].ops = 0)

\* C10: when the primary list query fails, the query ordered by id is
\* issued and its rows are shown; it is issued only after such a failure
C10_ListFallback ==
  \A r \in Lists :
    /\ (req[r].pc = "done" /\ req[r].q1 \in {"error", "throw"}) => req[r].q2 # "none"
    /\ (req[r].pc = "q2" \/ req[r].q2 # "none") => req[r].q1 \in {"error", "throw"}
    /\ req[r].q2 = "ok" => req[r].resp = 200

====
